---- MODULE Spec2Model ----
(***************************************************************************)
(* A model of codeu's terminal tool: the command safety filter             *)
(* (_is_command_safe), the keep-alive shell session (BashTerminal) and the *)
(* tool facade (bash_tool) of src/codeu/tools/terminal.                    *)
(*                                                                         *)
(* Text is modelled as a sequence of one-character strings, so that the    *)
(* regular expressions of the source are evaluated character by character. *)
(***************************************************************************)
EXTENDS Integers, Sequences, FiniteSets, TLC

VARIABLES
    TERMINAL,   \* tool.py:20  _TERMINAL: 0 is None, else the id of the BashTerminal
    shells,     \* the child processes pexpect.spawn created, by id
    procCwd,    \* os.getcwd() of the Python process
    projectRoot, \* tool.py:21  what _get_project_root() returns
    pc,         \* each caller's position in bash_tool / BashTerminal
    cmd,        \* each caller's `command` argument
    reset,      \* each caller's `reset_cwd` argument
    ctx,        \* which execute() call the caller is in: "init", "reset", "main"
    sh,         \* the BashTerminal the caller works on (`terminal` / `self`)
    before,     \* self.shell.before after the done marker matched
    result,     \* what bash_tool returned (or raised) to the caller
    calls,      \* number of bash_tool calls started
    text,       \* input of the command safety filter checked on its own, in pieces
    verdict,    \* what _is_command_safe returned for it
    fs,         \* the file system: each existing path's file, directory or link
    fsWas,      \* the file system as the last file tool call found it
    call,       \* the last file tool call: the tool and its arguments
    ret,        \* what that call returned or raised
    trace,      \* the file system calls it made, in order
    edits       \* number of str_replace_edit calls made

termVars == <<TERMINAL, shells, procCwd, projectRoot, pc, cmd, reset, ctx, sh, before,
              result, calls>>
safeVars == <<text, verdict>>
fileVars == <<fs, fsWas, call, ret, trace, edits>>
vars == <<TERMINAL, shells, procCwd, projectRoot, pc, cmd, reset, ctx, sh, before,
          result, calls, text, verdict, fs, fsWas, call, ret, trace, edits>>

----------------------------------------------------------------------------
(* Bounds of the model *)

\* number of concurrent callers of bash_tool
NCallers == 2
\* bash_tool calls started in one run
MaxCalls == 3
\* pieces a filter input is built from
MaxPieces == 4
\* str_replace_edit calls made in one run
MaxEdits == 2

Callers == 1..NCallers
ShellIds == 1..MaxCalls

----------------------------------------------------------------------------
(* Text helpers *)

Lower ==
    { "a", "b", "c", "d", "e", "f", "g", "h", "i", "j", "k", "l", "m",
      "n", "o", "p", "q", "r", "s", "t", "u", "v", "w", "x", "y", "z" }
Upper ==
    { "A", "B", "C", "D", "E", "F", "G", "H", "I", "J", "K", "L", "M",
      "N", "O", "P", "Q", "R", "S", "T", "U", "V", "W", "X", "Y", "Z" }
Digit == { "0", "1", "2", "3", "4", "5", "6", "7", "8", "9" }

\* \s of Python's re, on the characters that occur
IsSpace(ch) == ch \in { " ", "\t", "\n", "\r" }
IsDigit(ch) == ch \in Digit

\* w occurs in s starting at position i
StartsAt(s, i, w) ==
    /\ i >= 1
    /\ i + Len(w) - 1 <= Len(s)
    /\ \A k \in 1..Len(w) : s[i + k - 1] = w[k]

\* s[i..j] is a non-empty run of whitespace  (\s+)
SpaceRun(s, i, j) ==
    /\ i <= j
    /\ \A k \in i..j : IsSpace(s[k])

SetMax(S) == CHOOSE m \in S : \A x \in S : x <= m
SetMin(S) == CHOOSE m \in S : \A x \in S : m <= x

\* str.strip(), str.rstrip()
LStripFrom(s) ==
    LET ns == { k \in 1..Len(s) : ~IsSpace(s[k]) }
    IN  IF ns = {} THEN Len(s) + 1 ELSE SetMin(ns)
RStripTo(s) ==
    LET ns == { k \in 1..Len(s) : ~IsSpace(s[k]) }
    IN  IF ns = {} THEN 0 ELSE SetMax(ns)
Strip(s) == SubSeq(s, LStripFrom(s), RStripTo(s))
RStrip(s) == SubSeq(s, 1, RStripTo(s))

\* str(n) for n >= 0, and int(digits)
DigitOf(d) == <<"0", "1", "2", "3", "4", "5", "6", "7", "8", "9">>[d + 1]
RECURSIVE IntToText(_)
IntToText(n) ==
    IF n < 10 THEN <<DigitOf(n)>>
    ELSE Append(IntToText(n \div 10), DigitOf(n % 10))
ValueOf(ch) == CHOOSE d \in 0..9 : DigitOf(d) = ch
RECURSIVE TextToInt(_)
TextToInt(s) ==
    IF Len(s) = 0 THEN 0
    ELSE 10 * TextToInt(SubSeq(s, 1, Len(s) - 1)) + ValueOf(s[Len(s)])

\* "".join(ps): the pieces one after the other
RECURSIVE Joined(_)
Joined(ps) == IF Len(ps) = 0 THEN <<>> ELSE Head(ps) \o Joined(Tail(ps))

----------------------------------------------------------------------------
(* tool.py: the command safety filter *)

sudo == <<"s", "u", "d", "o">>
rm == <<"r", "m">>
dash_rf == <<"-", "r", "f">>

blacklist ==
    { <<"g", "r", "o", "u", "p", "a", "d", "d">>,
      <<"g", "r", "o", "u", "p", "d", "e", "l">>,
      <<"g", "r", "o", "u", "p", "m", "o", "d">>,
      <<"i", "f", "d", "o", "w", "n">>,
      <<"i", "f", "u", "p">>,
      <<"k", "i", "l", "l", "a", "l", "l">>,
      <<"l", "v", "r", "e", "m", "o", "v", "e">>,
      <<"m", "o", "u", "n", "t">>,
      <<"p", "a", "s", "s", "w", "d">>,
      <<"p", "k", "i", "l", "l">>,
      <<"p", "v", "r", "e", "m", "o", "v", "e">>,
      <<"r", "e", "b", "o", "o", "t">>,
      <<"r", "o", "u", "t", "e">>,
      <<"s", "e", "r", "v", "i", "c", "e">>,
      <<"s", "h", "u", "t", "d", "o", "w", "n">>,
      <<"s", "u">>,
      <<"s", "y", "s", "c", "t", "l">>,
      <<"s", "y", "s", "t", "e", "m", "c", "t", "l">>,
      <<"u", "m", "o", "u", "n", "t">>,
      <<"u", "s", "e", "r", "a", "d", "d">>,
      <<"u", "s", "e", "r", "d", "e", "l">>,
      <<"u", "s", "e", "r", "m", "o", "d">>,
      <<"v", "g", "r", "e", "m", "o", "v", "e">> }
extra_block ==
    { <<"m", "k", "f", "s">>,
      <<"f", "d", "i", "s", "k">>,
      <<"i", "p", "t", "a", "b", "l", "e", "s">>,
      <<"i", "f", "c", "o", "n", "f", "i", "g">> }

\* re.search(r"(^|\s)sudo(\s|$)", cmd)
SudoMatch(c) ==
    \E i \in 1..Len(c) :
        /\ StartsAt(c, i, sudo)
        /\ (i = 1 \/ IsSpace(c[i - 1]))
        /\ (i + 4 > Len(c) \/ IsSpace(c[i + 4]))

\* re.search(r"rm\s+-rf\s+(/\*|/($|\s))", cmd)
RmRootMatch(c) ==
    \E i \in 1..Len(c) : \E j \in (i + 3)..Len(c) : \E k \in (j + 4)..Len(c) :
        /\ StartsAt(c, i, rm)
        /\ SpaceRun(c, i + 2, j - 1)
        /\ StartsAt(c, j, dash_rf)
        /\ SpaceRun(c, j + 3, k - 1)
        /\ c[k] = "/"
        /\ \/ (k + 1 <= Len(c) /\ c[k + 1] = "*")
           \/ k = Len(c)
           \/ (k + 1 <= Len(c) /\ IsSpace(c[k + 1]))

\* the character class [A-Za-z0-9_./-]
IsTokenChar(ch) == ch \in Lower \cup Upper \cup Digit \cup { "_", ".", "/", "-" }

\* re.findall(r"[A-Za-z0-9_./-]+", cmd): the maximal runs of token characters
Tokens(c) ==
    { SubSeq(c, i, j) : <<i, j>> \in
        { p \in (1..Len(c)) \X (1..Len(c)) :
            /\ p[1] <= p[2]
            /\ \A k \in p[1]..p[2] : IsTokenChar(c[k])
            /\ (p[1] = 1 \/ ~IsTokenChar(c[p[1] - 1]))
            /\ (p[2] = Len(c) \/ ~IsTokenChar(c[p[2] + 1])) } }

\* os.path.basename(t): what follows the last "/"
Basename(t) ==
    LET slashes == { k \in 1..Len(t) : t[k] = "/" }
    IN  IF slashes = {} THEN t ELSE SubSeq(t, SetMax(slashes) + 1, Len(t))

BlacklistMatch(c) ==
    \E t \in Tokens(c) : Basename(t) \in blacklist \cup extra_block

\* _is_command_safe(cmd) -> (safe, reason)
is_command_safe(c) ==
    IF SudoMatch(c) THEN [safe |-> FALSE, reason |-> "sudo"]
    ELSE IF RmRootMatch(c) THEN [safe |-> FALSE, reason |-> "rm_root"]
    ELSE IF BlacklistMatch(c) THEN [safe |-> FALSE, reason |-> "blacklist"]
    ELSE [safe |-> TRUE, reason |-> "none"]

----------------------------------------------------------------------------
(* The bash child process: what /bin/bash does with the lines written to it *)

ProjDir == <<"/", "p", "r", "o", "j">>
TmpDir == <<"/", "t", "m", "p">>
Dirs == { ProjDir, TmpDir }

\* items of the stream read from the child
PROMPT == [t |-> "prompt", s |-> <<>>]
DONE == [t |-> "done", s |-> <<>>]
Line(s) == [t |-> "line", s |-> s]

kw_echo == <<"e", "c", "h", "o", " ">>
kw_exit == <<"e", "x", "i", "t", " ">>
kw_cd == <<"c", "d", " ">>
kw_pytest == <<"p", "y", "t", "e", "s", "t">>
kw_false == <<"f", "a", "l", "s", "e">>
kw_true == <<"t", "r", "u", "e">>
kw_pwd == <<"p", "w", "d">>
bash_says == <<"b", "a", "s", "h", ":", " ">>
not_found == <<":", " ", "c", "o", "m", "m", "a", "n", "d", " ", "n", "o", "t", " ", "f", "o", "u", "n", "d">>

\* a command list split at the ";" outside double quotes
RECURSIVE SplitFrom(_, _, _, _)
SplitFrom(s, i, start, quoted) ==
    IF i > Len(s) THEN <<SubSeq(s, start, Len(s))>>
    ELSE IF s[i] = "\"" THEN SplitFrom(s, i + 1, start, ~quoted)
    ELSE IF s[i] = ";" /\ ~quoted
         THEN <<SubSeq(s, start, i - 1)>> \o SplitFrom(s, i + 1, i + 1, FALSE)
    ELSE SplitFrom(s, i + 1, start, quoted)
SplitSemi(s) == SplitFrom(s, 1, 1, FALSE)

\* a word with its enclosing double quotes removed
Unquote(a) ==
    IF Len(a) >= 2 /\ a[1] = "\"" /\ a[Len(a)] = "\""
    THEN SubSeq(a, 2, Len(a) - 1) ELSE a

\* parameter expansion of $? in a word
RECURSIVE ExpandStatus(_, _)
ExpandStatus(a, status) ==
    IF Len(a) = 0 THEN <<>>
    ELSE IF Len(a) >= 2 /\ a[1] = "$" /\ a[2] = "?"
         THEN IntToText(status) \o ExpandStatus(SubSeq(a, 3, Len(a)), status)
    ELSE <<a[1]>> \o ExpandStatus(SubSeq(a, 2, Len(a)), status)

Rest(w, kw) == Strip(SubSeq(w, Len(kw) + 1, Len(w)))
FirstWord(w) ==
    LET sp == { k \in 1..Len(w) : IsSpace(w[k]) }
    IN  IF sp = {} THEN w ELSE SubSeq(w, 1, SetMin(sp) - 1)

\* output of a simple command goes out at once, or after a long-running one
\* (here pytest, a test run of unknown length) ends
Emit(st, l) ==
    IF st.slow THEN [st EXCEPT !.late = Append(@, l)]
    ELSE [st EXCEPT !.lines = Append(@, l)]

\* one simple command, run by a shell in state st
RunSimple(st, raw) ==
    LET w == Strip(raw)
    IN  IF st.exited \/ w = <<>> THEN st
        ELSE IF StartsAt(w, 1, kw_echo)
             THEN [Emit(st, ExpandStatus(Unquote(Rest(w, kw_echo)), st.status))
                     EXCEPT !.status = 0]
        ELSE IF StartsAt(w, 1, kw_exit)
             THEN [st EXCEPT !.exited = TRUE, !.status = TextToInt(Rest(w, kw_exit))]
        ELSE IF w = kw_false THEN [st EXCEPT !.status = 1]
        ELSE IF w = kw_true THEN [st EXCEPT !.status = 0]
        ELSE IF w = kw_pwd THEN [Emit(st, st.cwd) EXCEPT !.status = 0]
        ELSE IF StartsAt(w, 1, kw_cd)
             THEN LET d == Unquote(Rest(w, kw_cd))
                  IN  IF d \in Dirs THEN [st EXCEPT !.cwd = d, !.status = 0]
                      ELSE [Emit(st, bash_says \o d \o not_found) EXCEPT !.status = 1]
        ELSE IF w = kw_pytest THEN [st EXCEPT !.slow = TRUE, !.status = 0]
        ELSE [Emit(st, bash_says \o FirstWord(w) \o not_found) EXCEPT !.status = 127]

RECURSIVE RunList(_, _)
RunList(st, cmds) ==
    IF Len(cmds) = 0 THEN st ELSE RunList(RunSimple(st, Head(cmds)), Tail(cmds))

\* "( body ) 2>&1": the list runs in a subshell that starts in the shell's
\* directory; what it prints on either stream is read from the one stream
RunSubshell(body, cwd) ==
    RunList([cwd |-> cwd, status |-> 0, lines |-> <<>>, late |-> <<>>,
             slow |-> FALSE, exited |-> FALSE], SplitSemi(body))

Lines(ls) == [i \in 1..Len(ls) |-> Line(ls[i])]

syntax_error ==
    <<"b", "a", "s", "h", ":", " ", "s", "y", "n", "t", "a", "x", " ", "e", "r", "r", "o", "r", " ", "n", "e", "a", "r", " ", "u", "n", "e", "x", "p", "e", "c", "t", "e", "d", " ", "t", "o", "k", "e", "n", " ", "`", ")", "'">>

\* the characters of a text that open or close a quote or a subshell
Marks(s) == SelectSeq(s, LAMBDA ch : ch \in { "\"", "'", "(", ")" })

\* how bash reads the text of a command, mark by mark: a quote runs to the next
\* quote of its kind, "(" opens a subshell and ")" ends one; a ")" that ends
\* nothing is a syntax error, and text that ends inside a quote or a subshell
\* is no whole command yet
RECURSIVE Scan(_, _, _, _)
Scan(m, i, quote, depth) ==
    IF i > Len(m) THEN IF quote = "" /\ depth = 0 THEN "complete" ELSE "open"
    ELSE IF quote # "" THEN Scan(m, i + 1, IF m[i] = quote THEN "" ELSE quote, depth)
    ELSE IF m[i] \in { "\"", "'" } THEN Scan(m, i + 1, m[i], depth)
    ELSE IF m[i] = "(" THEN Scan(m, i + 1, quote, depth + 1)
    ELSE IF depth = 0 THEN "error"
    ELSE Scan(m, i + 1, quote, depth - 1)

----------------------------------------------------------------------------
(* bash_terminal.py: BashTerminal, the session around one child process *)

NoShell == [status |-> "none", cwd |-> <<>>, inq |-> <<>>, out |-> <<>>, pend |-> <<>>]

\* lines written to the child with sendline
AssignLine == [kind |-> "assign", body |-> <<>>]
ExitLine == [kind |-> "exit", body |-> <<>>]
done_marker ==
    <<"_", "_", "B", "A", "S", "H", "_", "T", "E", "R", "M", "I", "N", "A", "L", "_", "D", "O", "N", "E", "_", "_">>
\* f"( {command} ) 2>&1; printf '\n{self.done_marker}\n'"
WrappedText(command) ==
    <<"(", " ">> \o command \o <<" ", ")", " ", "2", ">", "&", "1", ";", " ", "p", "r", "i", "n", "t", "f", " ", "'">>
        \o <<"\n">> \o done_marker \o <<"\n", "'">>
Wrapped(command) == [kind |-> "cmd", body |-> command]

\* f'cd "{self.cwd}"'
CdCommand(dir) == kw_cd \o <<"\"">> \o dir \o <<"\"">>

HasItem(items, it) == \E i \in 1..Len(items) : items[i] = it
FirstOf(items, it) == SetMin({ i \in 1..Len(items) : items[i] = it })
LastOf(items, it) == SetMax({ i \in 1..Len(items) : items[i] = it })
UpTo(items, it) == SubSeq(items, 1, FirstOf(items, it) - 1)
After(items, it) == SubSeq(items, FirstOf(items, it) + 1, Len(items))

\* the drain loop: expect_exact(prompt) until it times out
Drained(items) ==
    IF HasItem(items, PROMPT) THEN SubSeq(items, LastOf(items, PROMPT) + 1, Len(items))
    ELSE items

\* self.shell.isalive()
isalive(S, s) == S[s].status \in { "starting", "idle", "running", "waiting" }

\* close(): the mutant sends 'exit' and closes whether or not the child is alive
close_unguarded(S, s) ==
    [S EXCEPT ![s].status = "closed", ![s].inq = Append(@, ExitLine)]
close(S, s) ==
    IF isalive(S, s)
    THEN [S EXCEPT ![s].status = "closed", ![s].inq = Append(@, ExitLine)]
    ELSE S

\* __del__: a BashTerminal that neither _TERMINAL nor a running call refers to
\* is collected, and its destructor closes it
RECURSIVE CloseAll(_, _)
CloseAll(S, ids) ==
    IF ids = {} THEN S
    ELSE LET s == CHOOSE x \in ids : TRUE IN CloseAll(close(S, s), ids \ {s})
Collect(S, T, P, H) ==
    CloseAll(S, { s \in ShellIds :
                    /\ S[s].status \notin { "none", "closed" }
                    /\ s # T
                    /\ \A c \in Callers : P[c] \in { "idle", "done" } \/ H[c] # s })

\* lines 68-81 of execute: the captured text made into the result
DropEcho(ls, command) ==
    IF Len(ls) > 0 /\ Strip(ls[1]) = Strip(command) THEN Tail(ls) ELSE ls
RECURSIVE DropBlankTail(_)
DropBlankTail(ls) ==
    IF Len(ls) > 0 /\ Strip(ls[Len(ls)]) = <<>>
    THEN DropBlankTail(SubSeq(ls, 1, Len(ls) - 1)) ELSE ls
RECURSIVE DropBlankHead(_)
DropBlankHead(ls) ==
    IF Len(ls) > 0 /\ Strip(ls[1]) = <<>> THEN DropBlankHead(Tail(ls)) ELSE ls
\* "\n".join(...).strip()
StripText(ls) ==
    LET t == DropBlankHead(DropBlankTail(ls))
    IN  IF Len(t) = 0 THEN t
        ELSE IF Len(t) = 1 THEN <<Strip(t[1])>>
        ELSE <<SubSeq(t[1], LStripFrom(t[1]), Len(t[1]))>>
             \o SubSeq(t, 2, Len(t) - 1)
             \o <<RStrip(t[Len(t)])>>
Normalize(items, command) ==
    LET noPrompt == SelectSeq(items, LAMBDA it : it.t = "line")
        ls == [i \in 1..Len(noPrompt) |-> noPrompt[i].s]
        kept == DropBlankTail(DropEcho(ls, command))
    IN  StripText([i \in 1..Len(kept) |-> RStrip(kept[i])])

----------------------------------------------------------------------------
(* tool.py: bash_tool *)

exit_code_suffix ==
    <<";", " ", "e", "c", "h", "o", " ", "\"", "_", "_", "E", "X", "I", "T", "_",
      "C", "O", "D", "E", ":", "$", "?", "\"">>
exit_code_marker == <<"_", "_", "E", "X", "I", "T", "_", "C", "O", "D", "E", ":">>

\* f'{command}; echo "__EXIT_CODE:$?"'
Combined(command) == command \o exit_code_suffix

\* the places (line, column) where r"__EXIT_CODE:(\d+)" matches
MarkerAt(ls, l, i) ==
    /\ StartsAt(ls[l], i, exit_code_marker)
    /\ i + Len(exit_code_marker) <= Len(ls[l])
    /\ IsDigit(ls[l][i + Len(exit_code_marker)])
MarkerPlaces(ls) ==
    UNION { { <<l, i>> : i \in { k \in 1..Len(ls[l]) : MarkerAt(ls, l, k) } } :
            l \in 1..Len(ls) }
FirstPlace(P) ==
    CHOOSE p \in P : \A q \in P : p[1] < q[1] \/ (p[1] = q[1] /\ p[2] <= q[2])
\* the digits of the match: the longest run of digits after the marker
DigitsEnd(l, from) ==
    SetMax({ j \in from..Len(l) : \A k \in from..j : IsDigit(l[k]) })
MarkerCode(ls) ==
    LET p == FirstPlace(MarkerPlaces(ls))
        from == p[2] + Len(exit_code_marker)
    IN  TextToInt(SubSeq(ls[p[1]], from, DigitsEnd(ls[p[1]], from)))

\* re.sub(r"\n?__EXIT_CODE:\d+\n?$", "", output).strip(): a marker that ends the text
TailMarkers(l) ==
    { i \in 1..Len(l) :
        /\ StartsAt(l, i, exit_code_marker)
        /\ i + Len(exit_code_marker) <= Len(l)
        /\ \A k \in (i + Len(exit_code_marker))..Len(l) : IsDigit(l[k]) }
RemoveMarker(ls) ==
    IF Len(ls) = 0 \/ TailMarkers(ls[Len(ls)]) = {} THEN ls
    ELSE LET last == ls[Len(ls)]
             i == SetMin(TailMarkers(last))
         IN  StripText(IF i = 1 THEN SubSeq(ls, 1, Len(ls) - 1)
                       ELSE SubSeq(ls, 1, Len(ls) - 1) \o <<SubSeq(last, 1, i - 1)>>)

NoResult == [kind |-> "none", reason |-> "", code |-> -1, out |-> <<>>]
ErrorResult(kind, reason) == [kind |-> kind, reason |-> reason, code |-> -1, out |-> <<>>]
\* lines 120-136 of bash_tool
ToolResult(output) ==
    IF MarkerPlaces(output) = {}
    THEN [kind |-> "output", reason |-> "", code |-> -1, out |-> output]
    ELSE LET exit_code == MarkerCode(output)
             rest == RemoveMarker(output)
         IN  IF exit_code # 0
             THEN [kind |-> "failed", reason |-> "exit code", code |-> exit_code, out |-> rest]
             ELSE [kind |-> "output", reason |-> "", code |-> 0, out |-> rest]

\* the text results that begin with "Error: "
IsErrorText(r) == r.kind \in { "invalid", "rejected", "failed" }

----------------------------------------------------------------------------
(* The callers' commands *)

cmd_echo_hi == <<"e", "c", "h", "o", " ", "h", "i">>
cmd_exit_7 == <<"e", "x", "i", "t", " ", "7">>
cmd_pwd == <<"p", "w", "d">>
cmd_cd_tmp == <<"c", "d", " ", "/", "t", "m", "p">>
cmd_sudo_rm == <<"s", "u", "d", "o", " ", "r", "m", " ", "-", "r", "f", " ", "/">>
cmd_blank == <<" ", " ">>
Commands ==
    { cmd_echo_hi, cmd_exit_7, kw_false, cmd_pwd, cmd_cd_tmp, kw_pytest,
      cmd_sudo_rm, cmd_blank }

----------------------------------------------------------------------------
(* text_editor.py: the file system the editor works on, and its two tools *)

\* bytes that are no ordinary characters: the NUL byte, a byte that is not
\* valid UTF-8, and a lone surrogate (a str character that has no UTF-8 encoding)
NUL == "NUL"
BadByte == "0xFF"
Surrogate == "U+DC80"

\* f.read(8192) of _is_probably_binary
ChunkSize == 8192

\* an optional argument: None, or a value
None == <<>>
Some(n) == <<n>>

\* _PROJECT_ROOT of text_editor.py, as the parts of a resolved path
EditorRoot == <<"proj">>

Absent == [kind |-> "none", data |-> <<>>, target |-> <<>>, readable |-> FALSE, names |-> <<>>]
File(data) == [Absent EXCEPT !.kind = "file", !.data = data, !.readable = TRUE]
Dir(names) == [Absent EXCEPT !.kind = "dir", !.names = names, !.readable = TRUE]
Link(target) == [Absent EXCEPT !.kind = "link", !.target = target, !.readable = TRUE]

\* the files of a project, by resolved path; a path not listed does not exist
ProjectFiles ==
    ( <<"proj">> :> Dir(<<"a.txt", "crlf.txt", "empty", "bin", "bad", "locked", "d", "link">>) )
    @@ ( <<"proj", "a.txt">> :> File(<<"a", "a", "a", "\n", "a", "b">>) )
    @@ ( <<"proj", "crlf.txt">> :> File(<<"a", "\r", "\n">>) )
    @@ ( <<"proj", "empty">> :> File(<<>>) )
    @@ ( <<"proj", "bin">> :> File(<<"a", NUL, "b">>) )
    @@ ( <<"proj", "bad">> :> File(<<"a", BadByte>>) )
    @@ ( <<"proj", "locked">> :> [File(<<"a">>) EXCEPT !.readable = FALSE] )
    @@ ( <<"proj", "d">> :> Dir(<<>>) )
    @@ ( <<"proj", "link">> :> Link(<<"out", "o.txt">>) )
    @@ ( <<"out">> :> Dir(<<"o.txt">>) )
    @@ ( <<"out", "o.txt">> :> File(<<"a", "b">>) )

NodeAt(F, p) == IF p \in DOMAIN F THEN F[p] ELSE Absent

\* Path.resolve(): the parts are walked from `cur`; ".." steps up and a symbolic
\* link is replaced by its target
RECURSIVE Walk(_, _, _)
Walk(F, cur, parts) ==
    IF parts = <<>> THEN cur
    ELSE LET seg == Head(parts)
             next == IF seg = ".." THEN SubSeq(cur, 1, Len(cur) - 1)
                     ELSE IF seg = "." THEN cur
                     ELSE Append(cur, seg)
             real == IF NodeAt(F, next).kind = "link" THEN NodeAt(F, next).target ELSE next
         IN  Walk(F, real, Tail(parts))

\* abs_path.relative_to(root) succeeds
IsRelativeTo(p, root) == Len(root) <= Len(p) /\ SubSeq(p, 1, Len(root)) = root

\* the mutant of _resolve_path that does not compare the path with the root
resolve_path_anywhere(F, file_path) ==
    IF file_path = <<>>
    THEN [path |-> <<>>, err |-> "empty_path", trace |-> <<>>]
    ELSE LET abs_path == IF Head(file_path) = "/" THEN Walk(F, <<>>, Tail(file_path))
                         ELSE Walk(F, EditorRoot, file_path)
         IN  IF NodeAt(F, abs_path).kind = "none"
             THEN [path |-> abs_path, err |-> "not_found", trace |-> <<"resolve", "exists">>]
             ELSE IF NodeAt(F, abs_path).kind # "file"
             THEN [path |-> abs_path, err |-> "not_a_file",
                   trace |-> <<"resolve", "exists", "is_file">>]
             ELSE [path |-> abs_path, err |-> "", trace |-> <<"resolve", "exists", "is_file">>]

\* _resolve_path(file_path) -> (path, error), with the file system calls it made.
\* A path is given by its parts; an absolute one starts with "/", and <<>> is the
\* blank string.
resolve_path(F, file_path) ==
    IF file_path = <<>>
    THEN [path |-> <<>>, err |-> "empty_path", trace |-> <<>>]
    ELSE LET abs_path == IF Head(file_path) = "/" THEN Walk(F, <<>>, Tail(file_path))
                         ELSE Walk(F, EditorRoot, file_path)
         IN  IF ~IsRelativeTo(abs_path, EditorRoot)
             THEN [path |-> abs_path, err |-> "outside_root", trace |-> <<"resolve">>]
             ELSE IF NodeAt(F, abs_path).kind = "none"
             THEN [path |-> abs_path, err |-> "not_found", trace |-> <<"resolve", "exists">>]
             ELSE IF NodeAt(F, abs_path).kind # "file"
             THEN [path |-> abs_path, err |-> "not_a_file",
                   trace |-> <<"resolve", "exists", "is_file">>]
             ELSE [path |-> abs_path, err |-> "", trace |-> <<"resolve", "exists", "is_file">>]

\* _is_probably_binary(path): a NUL among the first bytes; an unreadable file is
\* taken as text
is_probably_binary(F, path) ==
    /\ F[path].readable
    /\ \E i \in 1..Len(F[path].data) : i <= ChunkSize /\ F[path].data[i] = NUL

\* what text mode reading makes of the line ends (universal newlines)
RECURSIVE Newlines(_)
Newlines(s) ==
    IF s = <<>> THEN <<>>
    ELSE IF Head(s) = "\r"
    THEN <<"\n">> \o Newlines(IF Len(s) > 1 /\ s[2] = "\n" THEN SubSeq(s, 3, Len(s)) ELSE Tail(s))
    ELSE <<Head(s)>> \o Newlines(Tail(s))

\* path.read_text(encoding) / path.open("r").readlines(): the text, or the exception
read_text(F, path) ==
    IF ~F[path].readable THEN [err |-> "read", text |-> <<>>]
    ELSE IF \E i \in 1..Len(F[path].data) : F[path].data[i] = BadByte
    THEN [err |-> "decode", text |-> <<>>]
    ELSE [err |-> "", text |-> Newlines(F[path].data)]

\* f.readlines(): the lines, each with its line end
RECURSIVE readlines(_)
readlines(t) ==
    IF t = <<>> THEN <<>>
    ELSE LET ends == { i \in 1..Len(t) : t[i] = "\n" }
             n == IF ends = {} THEN Len(t) ELSE SetMin(ends)
         IN  <<SubSeq(t, 1, n)>> \o readlines(SubSeq(t, n + 1, Len(t)))

\* re.finditer(re.escape(w), s), and the loop of str.find: the places (from 1) of
\* the occurrences of w in s from place i on, left to right without overlap
RECURSIVE FindAll(_, _, _)
FindAll(s, w, i) ==
    IF i + Len(w) - 1 > Len(s) THEN <<>>
    ELSE IF StartsAt(s, i, w) THEN <<i>> \o FindAll(s, w, i + Len(w))
    ELSE FindAll(s, w, i + 1)

EditorError(reason) == [kind |-> "error", reason |-> reason]

\* text_view(file_path, start_line, end_line, max_characters): what it returns and
\* the file system calls it made
text_view(F, file_path, start_line, end_line, max_characters) ==
    LET r == resolve_path(F, file_path)
        probed == r.trace \o <<"read_bytes">>
        got == read_text(F, r.path)
        lines == readlines(got.text)
        total_lines == Len(lines)
        s == SetMax({ 1, IF start_line = None THEN 1 ELSE start_line[1] })
        e == SetMin({ total_lines, IF end_line = None THEN total_lines ELSE end_line[1] })
        selected == Joined(SubSeq(lines, s, e))
        truncated == /\ max_characters # None
                     /\ max_characters[1] >= 0
                     /\ Len(selected) > max_characters[1]
    IN  IF r.err # "" THEN [ret |-> EditorError(r.err), trace |-> r.trace]
        ELSE IF is_probably_binary(F, r.path)
        THEN [ret |-> EditorError("binary"), trace |-> probed]
        ELSE IF start_line # None /\ start_line[1] <= 0
        THEN [ret |-> EditorError("start_line"), trace |-> probed]
        ELSE IF end_line # None /\ end_line[1] <= 0
        THEN [ret |-> EditorError("end_line"), trace |-> probed]
        ELSE IF start_line # None /\ end_line # None /\ end_line[1] < start_line[1]
        THEN [ret |-> EditorError("end_before_start"), trace |-> probed]
        ELSE IF got.err # ""
        THEN [ret |-> EditorError(got.err), trace |-> probed \o <<"read_text">>]
        ELSE [ret |-> [kind |-> "view", reason |-> "", path |-> r.path, s |-> s, e |-> e,
                       total_lines |-> total_lines, truncated |-> truncated,
                       selected |-> IF truncated THEN SubSeq(selected, 1, max_characters[1])
                                    ELSE selected],
              trace |-> probed \o <<"read_text">>]

\* path.write_text(edited): the ways it can end, each with the file it leaves.
\* open("w") fails and leaves the file alone, or empties the file; then the text
\* is encoded (a lone surrogate cannot be) and written, wholly or up to an error.
write_text(F, path, edited) ==
    LET left(d) == [F EXCEPT ![path].data = d]
    IN  { [err |-> "write", files |-> F, trace |-> <<"open_w">>] }
        \cup
        ( IF \E i \in 1..Len(edited) : edited[i] = Surrogate
          THEN { [err |-> "UnicodeEncodeError", files |-> left(<<>>), trace |-> <<"open_w">>] }
          ELSE { [err |-> "", files |-> left(edited), trace |-> <<"open_w", "write">>] }
               \cup { [err |-> "write", files |-> left(SubSeq(edited, 1, n)),
                       trace |-> <<"open_w", "write">>] : n \in 0..(Len(edited) - 1) } )

\* str_replace_edit(file_path, old_str, new_str, occurrence_index): the ways it can
\* end, each with what it returns, the file system calls made and the files left
str_replace_edit(F, file_path, old_str, new_str, occurrence_index) ==
    LET r == resolve_path(F, file_path)
        probed == r.trace \o <<"read_bytes">>
        got == read_text(F, r.path)
        original == got.text
        fails(reason, tr) == { [ret |-> EditorError(reason), trace |-> tr, files |-> F] }
        matches == FindAll(original, old_str, 1)
        start == matches[occurrence_index + 1] - 1
        end == start + Len(old_str)
        edited == IF old_str = <<>> THEN new_str
                  ELSE SubSeq(original, 1, start) \o new_str
                       \o SubSeq(original, end + 1, Len(original))
        saved == { [ret |-> IF w.err = "write" THEN EditorError("write")
                            ELSE IF w.err # "" THEN [kind |-> "raised", reason |-> w.err]
                            ELSE [kind |-> "edited", reason |-> "", path |-> r.path,
                                  start |-> IF old_str = <<>> THEN 0 ELSE start,
                                  end |-> IF old_str = <<>> THEN 0 ELSE end,
                                  delta |-> Len(new_str) - Len(old_str),
                                  size |-> Len(edited)],
                    trace |-> probed \o <<"read_text">> \o w.trace,
                    files |-> w.files] : w \in write_text(F, r.path, edited) }
    IN  IF occurrence_index < 0 THEN fails("occurrence_index", <<>>)
        ELSE IF r.err # "" THEN fails(r.err, r.trace)
        ELSE IF is_probably_binary(F, r.path) THEN fails("binary", probed)
        ELSE IF got.err # "" THEN fails(got.err, probed \o <<"read_text">>)
        ELSE IF old_str = <<>>
        THEN IF Len(original) = 0 THEN saved
             ELSE fails("empty_old", probed \o <<"read_text">>)
        ELSE IF matches = <<>> THEN fails("old_not_found", probed \o <<"read_text">>)
        ELSE IF occurrence_index >= Len(matches)
        THEN fails("out_of_range", probed \o <<"read_text">>)
        ELSE saved

----------------------------------------------------------------------------
(* fs/ls.py, fs/tree.py, fs/grep.py: the three queries of the file system *)

\* a query raises
Raised(exc) == [kind |-> "raised", reason |-> exc]

\* fnmatch(rel_posix, pat) for some pattern of pattern_list; a pattern is "*" or a
\* name without wildcards
MatchesAny(rel, pattern_list) ==
    \E i \in 1..Len(pattern_list) : pattern_list[i] = "*" \/ rel = <<pattern_list[i]>>

\* the children of a directory as entries, in the order iterdir() gives them
Entries(F, root, current, patterns, include_files, include_dirs, absolute_paths) ==
    LET entry(i) == Append(current, F[current].names[i])
        rel(i) == SubSeq(entry(i), Len(root) + 1, Len(entry(i)))
        is_dir(i) == NodeAt(F, entry(i)).kind = "dir"
        shown(i) == /\ IF is_dir(i) THEN include_dirs ELSE include_files
                    /\ patterns = None \/ MatchesAny(rel(i), patterns[1])
    IN  [ i \in 1..Len(F[current].names) |->
            [shown |-> shown(i), at |-> entry(i),
             entry |-> [path |-> IF absolute_paths THEN entry(i) ELSE rel(i),
                        name |-> F[current].names[i], is_dir |-> is_dir(i),
                        depth |-> Len(rel(i))]] ]

\* ls(directory, patterns, include_files, include_dirs, absolute_paths)
ls(F, directory, patterns, include_files, include_dirs, absolute_paths) ==
    LET all == Entries(F, directory, directory, patterns, include_files, include_dirs,
                       absolute_paths)
        kept == SelectSeq(all, LAMBDA x : x.shown)
    IN  IF NodeAt(F, directory).kind = "none"
        THEN [ret |-> Raised("FileNotFoundError"), trace |-> <<"exists">>]
        ELSE IF NodeAt(F, directory).kind # "dir"
        THEN [ret |-> Raised("NotADirectoryError"), trace |-> <<"exists", "is_dir">>]
        ELSE IF ~include_files /\ ~include_dirs
        THEN [ret |-> Raised("ValueError"), trace |-> <<"exists", "is_dir">>]
        ELSE IF ~F[directory].readable
        THEN [ret |-> Raised("PermissionError"), trace |-> <<"exists", "is_dir", "iterdir">>]
        ELSE [ret |-> [kind |-> "entries", reason |-> "",
                       entries |-> [ i \in 1..Len(kept) |->
                                        [path |-> kept[i].entry.path, name |-> kept[i].entry.name,
                                         is_dir |-> kept[i].entry.is_dir] ]],
              trace |-> <<"exists", "is_dir", "iterdir">>]

\* the mutant of the depth test of dfs that goes one level further
too_deep_by_one(current_depth, max_depth) == current_depth > max_depth

\* dfs: `if current_depth >= max_depth: return`
too_deep(current_depth, max_depth) == current_depth >= max_depth

\* tree(root, max_depth, patterns, include_files, include_dirs, absolute_paths)
tree(F, root, max_depth, patterns, include_files, include_dirs, absolute_paths) ==
    LET RECURSIVE dfs(_, _), each(_, _, _)
        \* the entries i.. of `current`, each followed by what lies below it
        each(current, all, i) ==
            IF i > Len(all) THEN <<>>
            ELSE (IF all[i].shown THEN <<all[i].entry>> ELSE <<>>)
                 \o (IF all[i].entry.is_dir THEN dfs(all[i].at, all[i].entry.depth) ELSE <<>>)
                 \o each(current, all, i + 1)
        dfs(current, current_depth) ==
            IF too_deep(current_depth, max_depth) THEN <<>>
            ELSE IF ~F[current].readable THEN <<>>
            ELSE each(current, Entries(F, root, current, patterns, include_files,
                                       include_dirs, absolute_paths), 1)
    IN  IF NodeAt(F, root).kind = "none"
        THEN [ret |-> Raised("FileNotFoundError"), trace |-> <<"exists">>]
        ELSE IF NodeAt(F, root).kind # "dir"
        THEN [ret |-> Raised("NotADirectoryError"), trace |-> <<"exists", "is_dir">>]
        ELSE IF ~(1 <= max_depth /\ max_depth <= 3)
        THEN [ret |-> Raised("ValueError"), trace |-> <<"exists", "is_dir">>]
        ELSE IF ~include_files /\ ~include_dirs
        THEN [ret |-> Raised("ValueError"), trace |-> <<"exists", "is_dir">>]
        ELSE [ret |-> [kind |-> "entries", reason |-> "", entries |-> dfs(root, 0)],
              trace |-> <<"exists", "is_dir", "iterdir">>]

\* the mutant of the cut of a line's spans that keeps them all
capped_not(spans, remaining) == spans

\* grep: `if len(spans) > remaining: spans = spans[:remaining]`
capped(spans, remaining) ==
    IF Len(spans) > remaining THEN SubSeq(spans, 1, remaining) ELSE spans

\* root_path.rglob("*") narrowed to files: the entries of root, then those of each
\* directory below it in turn; a directory that cannot be listed is passed over
RECURSIVE rglob_files(_, _)
rglob_files(F, current) ==
    IF ~F[current].readable THEN <<>>
    ELSE LET below == [ i \in 1..Len(F[current].names) |-> Append(current, F[current].names[i]) ]
             RECURSIVE under(_)
             under(i) == IF i > Len(below) THEN <<>>
                         ELSE (IF NodeAt(F, below[i]).kind = "dir"
                               THEN rglob_files(F, below[i]) ELSE <<>>) \o under(i + 1)
         IN  SelectSeq(below, LAMBDA p : NodeAt(F, p).kind = "file") \o under(1)

\* grep(root, query, case_sensitive, use_regex, include_binary, max_matches), with
\* glob=None; a regular expression is one without special characters
grep(F, root, query, case_sensitive, use_regex, include_binary, max_matches) ==
    LET lower(s) == [ i \in 1..Len(s) |-> IF s[i] = "A" THEN "a" ELSE s[i] ]
        \* the spans of one line, half-open and counted from 0
        spans_of(line) ==
            LET found == IF use_regex \/ case_sensitive THEN FindAll(line, query, 1)
                         ELSE FindAll(lower(line), lower(query), 1)
            IN  IF query = <<>>
                THEN IF use_regex THEN [ i \in 1..(Len(line) + 1) |-> <<i - 1, i - 1>> ]
                     ELSE <<>>
                ELSE [ i \in 1..Len(found) |-> <<found[i] - 1, found[i] - 1 + Len(query)>> ]
        rstrip(raw_line) ==
            LET keep == { i \in 1..Len(raw_line) : raw_line[i] # "\n" }
            IN  IF keep = {} THEN <<>> ELSE SubSeq(raw_line, 1, SetMax(keep))
        RECURSIVE in_lines(_, _, _, _), in_files(_, _, _)
        \* the lines idx.. of one file; st holds the matches and their count so far
        in_lines(file_path, lines, idx, st) ==
            IF idx > Len(lines) THEN st
            ELSE LET line == rstrip(lines[idx])
                     spans == spans_of(line)
                     remaining == max_matches[1] - st.total_occurrences
                     kept == IF max_matches = None THEN spans ELSE capped(spans, remaining)
                     next == [matches |-> Append(st.matches,
                                    [file_path |-> file_path, line_number |-> idx,
                                     line_text |-> line, spans |-> kept]),
                              total_occurrences |->
                                    IF max_matches = None THEN st.total_occurrences
                                    ELSE st.total_occurrences + Len(kept)]
                 IN  IF spans = <<>> THEN in_lines(file_path, lines, idx + 1, st)
                     ELSE IF max_matches # None /\ remaining <= 0 THEN st
                     ELSE IF max_matches # None /\ next.total_occurrences >= max_matches[1]
                     THEN next
                     ELSE in_lines(file_path, lines, idx + 1, next)
        in_files(candidate_files, i, st) ==
            IF i > Len(candidate_files)
            THEN [kind |-> "matches", reason |-> "", matches |-> st.matches]
            ELSE LET file_path == candidate_files[i]
                     got == read_text(F, file_path)
                     after == in_lines(file_path, readlines(got.text), 1, st)
                 IN  IF ~include_binary /\ is_probably_binary(F, file_path)
                     THEN in_files(candidate_files, i + 1, st)
                     ELSE IF got.err = "read" THEN Raised("PermissionError")
                     ELSE IF got.err = "decode" THEN Raised("UnicodeDecodeError")
                     ELSE IF max_matches # None /\ after.total_occurrences >= max_matches[1]
                     THEN [kind |-> "matches", reason |-> "", matches |-> after.matches]
                     ELSE in_files(candidate_files, i + 1, after)
    IN  IF NodeAt(F, root).kind = "none"
        THEN [ret |-> Raised("FileNotFoundError"), trace |-> <<"exists">>]
        ELSE IF NodeAt(F, root).kind # "dir"
        THEN [ret |-> Raised("NotADirectoryError"), trace |-> <<"exists", "is_dir">>]
        ELSE IF max_matches # None /\ max_matches[1] < 0
        THEN [ret |-> Raised("ValueError"), trace |-> <<"exists", "is_dir">>]
        ELSE [ret |-> in_files(rglob_files(F, root), 1,
                               [matches |-> <<>>, total_occurrences |-> 0]),
              trace |-> <<"exists", "is_dir", "rglob", "read_text">>]

\* the trees the queries are made on: the files there are, and the directories
\* that cannot be listed
Layout(files, locked) ==
    LET there(n) == n \in files \cup { "d1", "d2", "d3" }
        D(me, names) == [Dir(SelectSeq(names, there)) EXCEPT !.readable = me \notin locked]
        F(n, at, data) == IF n \in files THEN at :> File(data) ELSE <<>>
    IN  ( <<"proj">> :> D("proj", <<"f0", "d1">>) )
        @@ ( <<"proj", "d1">> :> D("d1", <<"d2", "f1">>) )
        @@ ( <<"proj", "d1", "d2">> :> D("d2", <<"f2", "d3">>) )
        @@ ( <<"proj", "d1", "d2", "d3">> :> D("d3", <<"f3">>) )
        @@ F("f0", <<"proj", "f0">>, <<"a", "a", " ", "a", "\n", "x", "A">>)
        @@ F("f1", <<"proj", "d1", "f1">>, <<"a", "\n", "b", "\n", "a", "a", "a">>)
        @@ F("f2", <<"proj", "d1", "d2", "f2">>, <<"a", NUL, "a">>)
        @@ F("f3", <<"proj", "d1", "d2", "d3", "f3">>, <<"a", "a">>)
Layouts ==
    { Layout(files, locked) : files \in SUBSET { "f0", "f1", "f2", "f3" },
                              locked \in SUBSET { "d1", "d2", "d3" } }

----------------------------------------------------------------------------
(* State, and the steps of bash_tool and of the child processes *)

\* the state after import, given the files there are
InitWith(files) ==
    /\ TERMINAL = 0
    /\ shells = [s \in ShellIds |-> NoShell]
    /\ procCwd \in Dirs
    /\ projectRoot \in { ProjDir, procCwd }
    /\ pc = [c \in Callers |-> "idle"]
    /\ cmd = [c \in Callers |-> <<>>]
    /\ reset = [c \in Callers |-> FALSE]
    /\ ctx = [c \in Callers |-> "none"]
    /\ sh = [c \in Callers |-> 0]
    /\ before = [c \in Callers |-> <<>>]
    /\ result = [c \in Callers |-> NoResult]
    /\ calls = 0
    /\ text = <<>>
    /\ verdict = [safe |-> TRUE, reason |-> "unchecked"]
    /\ fs = files
    /\ fsWas = files
    /\ call = [op |-> "none"]
    /\ ret = [kind |-> "none", reason |-> ""]
    /\ trace = <<>>
    /\ edits = 0

\* the state after import, in a project with its files
Init == InitWith(ProjectFiles)

\* the command of the execute() call the caller is in
CommandOf(c) ==
    IF ctx[c] = "main" THEN Combined(cmd[c]) ELSE CdCommand(projectRoot)

\* bash_tool returns a text result without touching the session
Return(c, command, reset_cwd, r) ==
    /\ pc' = [pc EXCEPT ![c] = "done"]
    /\ result' = [result EXCEPT ![c] = r]
    /\ UNCHANGED <<TERMINAL, shells, ctx, sh, before>>

\* the mutant of _get_terminal that builds a BashTerminal whether or not one is held
GetTerminalRespawn(c, command, reset_cwd) ==
    /\ result' = [result EXCEPT ![c] = NoResult]
    /\ before' = before
    /\ LET s == SetMin({ x \in ShellIds : shells[x].status = "none" })
       IN  /\ shells' = [shells EXCEPT ![s] =
                   [status |-> "starting", cwd |-> procCwd,
                    inq |-> <<AssignLine>>, out |-> <<>>, pend |-> <<>>]]
           /\ sh' = [sh EXCEPT ![c] = s]
           /\ ctx' = [ctx EXCEPT ![c] = "init"]
           /\ pc' = [pc EXCEPT ![c] = "init_expect1"]
           /\ UNCHANGED TERMINAL

\* terminal = _get_terminal(), up to the first wait: BashTerminal.__init__ spawns
\* the child and writes the PS1 line, or the existing session is taken and
\* execute() is entered
GetTerminal(c, command, reset_cwd) ==
    /\ result' = [result EXCEPT ![c] = NoResult]
    /\ before' = before
    /\ IF TERMINAL = 0
       THEN LET s == SetMin({ x \in ShellIds : shells[x].status = "none" })
            IN  /\ shells' = [shells EXCEPT ![s] =
                        [status |-> "starting", cwd |-> procCwd,
                         inq |-> <<AssignLine>>, out |-> <<>>, pend |-> <<>>]]
                /\ sh' = [sh EXCEPT ![c] = s]
                /\ ctx' = [ctx EXCEPT ![c] = "init"]
                /\ pc' = [pc EXCEPT ![c] = "init_expect1"]
                /\ UNCHANGED TERMINAL
       ELSE /\ sh' = [sh EXCEPT ![c] = TERMINAL]
            /\ ctx' = [ctx EXCEPT ![c] = IF reset_cwd THEN "reset" ELSE "main"]
            /\ pc' = [pc EXCEPT ![c] = "drain"]
            /\ UNCHANGED <<TERMINAL, shells>>

\* the mutant of bash_tool that leaves out the safety filter
BashToolUnfiltered(c, command, reset_cwd) ==
    /\ pc[c] = "idle"
    /\ calls < MaxCalls
    /\ calls' = calls + 1
    /\ cmd' = [cmd EXCEPT ![c] = command]
    /\ reset' = [reset EXCEPT ![c] = reset_cwd]
    /\ IF Strip(command) = <<>>
       THEN Return(c, command, reset_cwd, ErrorResult("invalid", "empty"))
       ELSE GetTerminal(c, command, reset_cwd)
    /\ UNCHANGED <<procCwd, projectRoot, text, verdict, fileVars>>

\* bash_tool(command, reset_cwd), lines 101-109
BashTool(c, command, reset_cwd) ==
    /\ pc[c] = "idle"
    /\ calls < MaxCalls
    /\ calls' = calls + 1
    /\ cmd' = [cmd EXCEPT ![c] = command]
    /\ reset' = [reset EXCEPT ![c] = reset_cwd]
    /\ IF Strip(command) = <<>>
       THEN Return(c, command, reset_cwd, ErrorResult("invalid", "empty"))
       ELSE IF ~is_command_safe(command).safe
       THEN Return(c, command, reset_cwd,
                   ErrorResult("rejected", is_command_safe(command).reason))
       ELSE GetTerminal(c, command, reset_cwd)
    /\ UNCHANGED <<procCwd, projectRoot, text, verdict, fileVars>>

\* an exception leaves bash_tool; a BashTerminal whose __init__ raised is dropped
Raise(c, exc) ==
    /\ pc' = [pc EXCEPT ![c] = "done"]
    /\ result' = [result EXCEPT ![c] = ErrorResult("raised", exc)]
    /\ shells' = Collect(shells, TERMINAL, pc', sh)
    /\ UNCHANGED <<TERMINAL, procCwd, projectRoot, cmd, reset, ctx, sh, before, calls,
                   text, verdict, fileVars>>

\* __init__ line 32: the first prompt is seen; line 34 writes PS2=""
InitExpect1(c) ==
    /\ pc[c] = "init_expect1"
    /\ HasItem(shells[sh[c]].out, PROMPT)
    /\ shells' = [shells EXCEPT ![sh[c]].out = After(@, PROMPT),
                                ![sh[c]].inq = Append(@, AssignLine)]
    /\ pc' = [pc EXCEPT ![c] = "init_expect2"]
    /\ UNCHANGED <<TERMINAL, procCwd, projectRoot, cmd, reset, ctx, sh, before, result,
                   calls, text, verdict, fileVars>>

\* __init__ line 32: the child does not show its prompt within 10 s
InitTimeout(c) ==
    /\ pc[c] = "init_expect1"
    /\ ~HasItem(shells[sh[c]].out, PROMPT)
    /\ shells[sh[c]].status = "starting"
    /\ Raise(c, "TIMEOUT@32")

\* __init__ line 35: the second prompt is seen; line 39 calls execute(cd)
InitExpect2(c) ==
    /\ pc[c] = "init_expect2"
    /\ HasItem(shells[sh[c]].out, PROMPT)
    /\ shells' = [shells EXCEPT ![sh[c]].out = After(@, PROMPT)]
    /\ pc' = [pc EXCEPT ![c] = "drain"]
    /\ UNCHANGED <<TERMINAL, procCwd, projectRoot, cmd, reset, ctx, sh, before, result,
                   calls, text, verdict, fileVars>>

\* execute lines 52-56: stray prompts are drained (a closed session raises)
ExecDrain(c) ==
    /\ pc[c] = "drain"
    /\ IF shells[sh[c]].status = "closed"
       THEN Raise(c, "ValueError")
       ELSE /\ shells' = [shells EXCEPT ![sh[c]].out = Drained(@)]
            /\ pc' = [pc EXCEPT ![c] = "send"]
            /\ UNCHANGED <<TERMINAL, procCwd, projectRoot, cmd, reset, ctx, sh, before,
                           result, calls, text, verdict, fileVars>>

\* execute lines 59-60: the wrapped command is written
ExecSend(c) ==
    /\ pc[c] = "send"
    /\ IF shells[sh[c]].status = "closed"
       THEN Raise(c, "OSError")
       ELSE /\ shells' = [shells EXCEPT ![sh[c]].inq = Append(@, Wrapped(CommandOf(c)))]
            /\ pc' = [pc EXCEPT ![c] = "expect_done"]
            /\ UNCHANGED <<TERMINAL, procCwd, projectRoot, cmd, reset, ctx, sh, before,
                           result, calls, text, verdict, fileVars>>

\* execute lines 63-64: the done marker is seen, what came before it is the output
ExecExpectDone(c) ==
    /\ pc[c] = "expect_done"
    /\ IF shells[sh[c]].status = "closed"
       THEN Raise(c, "ValueError")
       ELSE /\ HasItem(shells[sh[c]].out, DONE)
            /\ before' = [before EXCEPT ![c] = UpTo(shells[sh[c]].out, DONE)]
            /\ shells' = [shells EXCEPT ![sh[c]].out = After(@, DONE)]
            /\ pc' = [pc EXCEPT ![c] = "expect_prompt"]
            /\ UNCHANGED <<TERMINAL, procCwd, projectRoot, cmd, reset, ctx, sh, result,
                           calls, text, verdict, fileVars>>

\* the child has nothing left to run, runs a command that takes long, or
\* waits for the rest of a command
Quiet(s) ==
    \/ shells[s].status \in { "running", "waiting" }
    \/ (shells[s].status = "idle" /\ shells[s].inq = <<>>)

\* execute lines 63 and 66: what is waited for does not come in time
ExecTimeout(c) ==
    /\ \/ pc[c] = "expect_done" /\ ~HasItem(shells[sh[c]].out, DONE)
       \/ pc[c] = "expect_prompt" /\ ~HasItem(shells[sh[c]].out, PROMPT)
    /\ Quiet(sh[c])
    /\ Raise(c, IF pc[c] = "expect_done" THEN "TIMEOUT@63" ELSE "TIMEOUT@66")

\* execute lines 66-81: the prompt after the marker is seen and execute returns;
\* the caller goes on to its next wait: _TERMINAL is set (line 48), the next
\* execute() is entered (lines 114, 118), or bash_tool returns (lines 120-136)
ExecExpectPrompt(c) ==
    /\ pc[c] = "expect_prompt"
    /\ IF shells[sh[c]].status = "closed"
       THEN Raise(c, "ValueError")
       ELSE /\ HasItem(shells[sh[c]].out, PROMPT)
            /\ LET S == [shells EXCEPT ![sh[c]].out = After(@, PROMPT)]
                   output == Normalize(before[c], CommandOf(c))
               IN  CASE ctx[c] = "init" ->
                            /\ TERMINAL' = sh[c]
                            /\ ctx' = [ctx EXCEPT ![c] = IF reset[c] THEN "reset" ELSE "main"]
                            /\ pc' = [pc EXCEPT ![c] = "drain"]
                            /\ shells' = Collect(S, sh[c], pc', sh)
                            /\ UNCHANGED result
                     [] ctx[c] = "reset" ->
                            /\ ctx' = [ctx EXCEPT ![c] = "main"]
                            /\ pc' = [pc EXCEPT ![c] = "drain"]
                            /\ shells' = S
                            /\ UNCHANGED <<TERMINAL, result>>
                     [] OTHER ->
                            /\ result' = [result EXCEPT ![c] = ToolResult(output)]
                            /\ pc' = [pc EXCEPT ![c] = "done"]
                            /\ shells' = Collect(S, TERMINAL, pc', sh)
                            /\ UNCHANGED <<TERMINAL, ctx>>
            /\ UNCHANGED <<procCwd, projectRoot, cmd, reset, sh, before, calls,
                           text, verdict, fileVars>>

\* the caller has its result and may call again
Finish(c) ==
    /\ pc[c] = "done"
    /\ pc' = [pc EXCEPT ![c] = "idle"]
    /\ cmd' = [cmd EXCEPT ![c] = <<>>]
    /\ reset' = [reset EXCEPT ![c] = FALSE]
    /\ ctx' = [ctx EXCEPT ![c] = "none"]
    /\ sh' = [sh EXCEPT ![c] = 0]
    /\ before' = [before EXCEPT ![c] = <<>>]
    /\ result' = [result EXCEPT ![c] = NoResult]
    /\ UNCHANGED <<TERMINAL, shells, procCwd, projectRoot, calls, text, verdict, fileVars>>

\* close(), __exit__ or __del__ of the session _TERMINAL holds
TerminalClose ==
    /\ TERMINAL # 0
    /\ shells' = close(shells, TERMINAL)
    /\ UNCHANGED <<TERMINAL, procCwd, projectRoot, pc, cmd, reset, ctx, sh, before,
                   result, calls, text, verdict, fileVars>>

\* bash starts and shows its prompt
ShellStart(s) ==
    /\ shells[s].status = "starting"
    /\ shells' = [shells EXCEPT ![s].status = "idle", ![s].out = Append(@, PROMPT)]
    /\ UNCHANGED <<TERMINAL, procCwd, projectRoot, pc, cmd, reset, ctx, sh, before,
                   result, calls, text, verdict, fileVars>>

\* bash reads its next line and runs it: an assignment, or
\* ( command ) 2>&1; printf '\n__BASH_TERMINAL_DONE__\n'
ShellStep(s) ==
    /\ shells[s].status = "idle"
    /\ shells[s].inq # <<>>
    /\ LET l == Head(shells[s].inq)
           shape == Scan(Marks(WrappedText(l.body)), 1, "", 0)
           r == RunSubshell(l.body, shells[s].cwd)
           tail == <<Line(<<>>), DONE, PROMPT>>
       IN  IF l.kind = "cmd"
           THEN IF shape = "open"
                THEN \* the three lines are no whole command: bash reads on
                     shells' = [shells EXCEPT ![s].inq = Tail(@),
                                    ![s].status = "waiting"]
                ELSE IF shape = "error"
                THEN \* the first line is dropped, the marker line is run as a
                     \* command that is not found, the last line opens a quote
                     shells' = [shells EXCEPT ![s].inq = Tail(@),
                                    ![s].status = "waiting",
                                    ![s].out = @ \o <<Line(syntax_error), PROMPT,
                                                      Line(bash_says), DONE,
                                                      Line(not_found), PROMPT>>]
                ELSE IF r.slow
                THEN shells' = [shells EXCEPT ![s].inq = Tail(@),
                                    ![s].status = "running",
                                    ![s].out = @ \o Lines(r.lines),
                                    ![s].pend = Lines(r.late) \o tail]
                ELSE shells' = [shells EXCEPT ![s].inq = Tail(@),
                                    ![s].out = @ \o Lines(r.lines) \o tail]
           ELSE shells' = [shells EXCEPT ![s].inq = Tail(@),
                                ![s].out = Append(@, PROMPT)]
    /\ UNCHANGED <<TERMINAL, procCwd, projectRoot, pc, cmd, reset, ctx, sh, before,
                   result, calls, text, verdict, fileVars>>

\* a long-running command ends
ShellFinish(s) ==
    /\ shells[s].status = "running"
    /\ shells' = [shells EXCEPT ![s].status = "idle",
                                ![s].out = @ \o shells[s].pend,
                                ![s].pend = <<>>]
    /\ UNCHANGED <<TERMINAL, procCwd, projectRoot, pc, cmd, reset, ctx, sh, before,
                   result, calls, text, verdict, fileVars>>

CallerStep(c) ==
    \/ InitExpect1(c)
    \/ InitTimeout(c)
    \/ InitExpect2(c)
    \/ ExecDrain(c)
    \/ ExecSend(c)
    \/ ExecExpectDone(c)
    \/ ExecTimeout(c)
    \/ ExecExpectPrompt(c)
    \/ Finish(c)

ShellAct(s) ==
    \/ ShellStart(s)
    \/ ShellStep(s)
    \/ ShellFinish(s)

\* one thread calls bash_tool, one call after the other; the owner of the
\* session may close it between two calls
Next ==
    \/ \E command \in Commands : \E reset_cwd \in BOOLEAN :
            BashTool(1, command, reset_cwd)
    \/ CallerStep(1)
    \/ \E s \in ShellIds : ShellAct(s)
    \/ (pc[1] \in { "idle", "done" } /\ TerminalClose)

Spec == Init /\ [][Next]_vars

\* callers on concurrent threads (no lock is taken anywhere in tool.py)
ConcCommands == { cmd_echo_hi, kw_pytest }
NextConc ==
    \/ \E c \in Callers : \E command \in ConcCommands :
            BashTool(c, command, FALSE)
    \/ \E c \in Callers : CallerStep(c)
    \/ \E s \in ShellIds : ShellAct(s)
    \/ TerminalClose

SpecConc == Init /\ [][NextConc]_vars

----------------------------------------------------------------------------
(* The safety filter on its own: inputs built from pieces of command text *)

Pieces ==
    { sudo, <<" ">>, <<";">>, <<"l", "s">>, <<"x">>,
      <<"r", "m", " ">>, <<"-", "r", "f", " ">>, <<"-", "f", "r", " ">>,
      <<"-", "r", " ">>, <<"-", "f", " ">>, <<"/">>, <<"/", "*">> }

TextAppend(p) ==
    /\ verdict.reason = "unchecked"
    /\ Len(text) < MaxPieces
    /\ text' = Append(text, p)
    /\ UNCHANGED <<verdict, termVars, fileVars>>

SafetyCheck ==
    /\ verdict.reason = "unchecked"
    /\ verdict' = is_command_safe(Joined(text))
    /\ UNCHANGED <<text, termVars, fileVars>>

NextSafe ==
    \/ \E p \in Pieces : TextAppend(p)
    \/ SafetyCheck

SpecSafe == Init /\ [][NextSafe]_vars

----------------------------------------------------------------------------
(* The deny-list check on its own: inputs built around one deny-listed name *)

DenyPieces ==
    { <<"m", "o", "u", "n", "t">>, <<"M", "o", "u", "n", "t">>, <<"x">>,
      <<"=">>, <<"@">>, <<" ">>, <<"/">> }

NextDeny ==
    \/ \E p \in DenyPieces : TextAppend(p)
    \/ SafetyCheck

SpecDeny == Init /\ [][NextDeny]_vars

----------------------------------------------------------------------------
(* The editor on its own: views and edits of the project's files *)

\* inputs of the two tools
EditPaths ==
    { <<>>, <<"a.txt">>, <<"crlf.txt">>, <<"empty">>, <<"bin">>, <<"bad">>, <<"locked">>,
      <<"d">>, <<"nofile">>, <<"link">>, <<"..", "out", "o.txt">>, <<"/", "out", "o.txt">> }
LineArgs == { None, Some(0), Some(1), Some(2), Some(4) }
CharArgs == { None, Some(2) }

TextView(file_path, start_line, end_line, max_characters) ==
    LET r == text_view(fs, file_path, start_line, end_line, max_characters)
    IN  /\ call' = [op |-> "text_view", file_path |-> file_path, start_line |-> start_line,
                    end_line |-> end_line, max_characters |-> max_characters]
        /\ ret' = r.ret
        /\ trace' = r.trace
        /\ fsWas' = fs
        /\ UNCHANGED <<fs, edits, termVars, safeVars>>

StrReplaceEdit(file_path, old_str, new_str, occurrence_index) ==
    /\ edits < MaxEdits
    /\ \E r \in str_replace_edit(fs, file_path, old_str, new_str, occurrence_index) :
        /\ call' = [op |-> "str_replace_edit", file_path |-> file_path, old_str |-> old_str,
                    new_str |-> new_str, occurrence_index |-> occurrence_index]
        /\ ret' = r.ret
        /\ trace' = r.trace
        /\ fsWas' = fs
        /\ fs' = r.files
    /\ edits' = edits + 1
    /\ UNCHANGED <<termVars, safeVars>>

NextEdit ==
    \/ \E file_path \in EditPaths : \E start_line \in { None, Some(2) } :
         \E end_line \in { None, Some(1) } :
            TextView(file_path, start_line, end_line, None)
    \/ \E file_path \in EditPaths : \E old_str \in { <<>>, <<"a">>, <<"a", "a">>, <<"b">> } :
         \E new_str \in { <<>>, <<"a">>, <<"b">>, <<Surrogate>> } :
         \E occurrence_index \in { -1, 0, 1, 2 } :
            StrReplaceEdit(file_path, old_str, new_str, occurrence_index)

\* the editor does not look at the working directory
InitEdit == Init /\ procCwd = ProjDir

SpecEdit == InitEdit /\ [][NextEdit]_vars

----------------------------------------------------------------------------
(* text_view on its own, over the line ranges and truncations *)

NextView ==
    \E file_path \in EditPaths : \E start_line, end_line \in LineArgs :
        \E max_characters \in CharArgs :
            TextView(file_path, start_line, end_line, max_characters)

SpecView == Init /\ [][NextView]_vars

----------------------------------------------------------------------------
(* The queries on their own: one query of a tree of files *)

\* the directories asked about: two directories, a file and a path that is not there
Roots == { <<"proj">>, <<"proj", "d1">>, <<"proj", "f0">>, <<"nowhere">> }
\* pattern lists: none, a name, the pattern that matches all
PatternArgs == { None, Some(<<"f0">>), Some(<<"*">>) }

Ls(directory, patterns, include_files, include_dirs, absolute_paths) ==
    LET r == ls(fs, directory, patterns, include_files, include_dirs, absolute_paths)
    IN  /\ ret.kind = "none"
        /\ call' = [op |-> "ls", directory |-> directory, patterns |-> patterns,
                    include_files |-> include_files, include_dirs |-> include_dirs,
                    absolute_paths |-> absolute_paths]
        /\ ret' = r.ret
        /\ trace' = r.trace
        /\ UNCHANGED <<fs, fsWas, edits, termVars, safeVars>>

Tree(root, max_depth, patterns, include_files, include_dirs, absolute_paths) ==
    LET r == tree(fs, root, max_depth, patterns, include_files, include_dirs, absolute_paths)
    IN  /\ ret.kind = "none"
        /\ call' = [op |-> "tree", root |-> root, max_depth |-> max_depth,
                    patterns |-> patterns, include_files |-> include_files,
                    include_dirs |-> include_dirs, absolute_paths |-> absolute_paths]
        /\ ret' = r.ret
        /\ trace' = r.trace
        /\ UNCHANGED <<fs, fsWas, edits, termVars, safeVars>>

Grep(root, query, case_sensitive, use_regex, include_binary, max_matches) ==
    LET r == grep(fs, root, query, case_sensitive, use_regex, include_binary, max_matches)
    IN  /\ ret.kind = "none"
        /\ call' = [op |-> "grep", root |-> root, query |-> query,
                    case_sensitive |-> case_sensitive, use_regex |-> use_regex,
                    include_binary |-> include_binary, max_matches |-> max_matches]
        /\ ret' = r.ret
        /\ trace' = r.trace
        /\ UNCHANGED <<fs, fsWas, edits, termVars, safeVars>>

NextFs ==
    \/ \E directory \in Roots : \E patterns \in PatternArgs :
         \E include_files, include_dirs, absolute_paths \in BOOLEAN :
            Ls(directory, patterns, include_files, include_dirs, absolute_paths)
    \/ \E root \in Roots : \E max_depth \in 0..4 : \E patterns \in PatternArgs :
         \E include_files, include_dirs, absolute_paths \in BOOLEAN :
            Tree(root, max_depth, patterns, include_files, include_dirs, absolute_paths)
    \/ \E root \in Roots : \E query \in { <<>>, <<"a">>, <<"a", "a">>, <<"A">> } :
         \E max_matches \in { None, Some(-1), Some(0), Some(1), Some(2), Some(4) } :
         \E case_sensitive, use_regex, include_binary \in BOOLEAN :
            Grep(root, query, case_sensitive, use_regex, include_binary, max_matches)

InitFs == procCwd = ProjDir /\ \E files \in Layouts : InitWith(files)

SpecFs == InitFs /\ [][NextFs]_vars

----------------------------------------------------------------------------
(* Commands that end at once in bash, well formed or not, on one thread *)

\* among them one that prints the text of an exit-code marker, a quote that
\* is not closed, a ")" too many and a "(" that is not closed
PromptCommands ==
    { cmd_echo_hi, cmd_exit_7, kw_false,
      <<"e", "c", "h", "o", " ", "_", "_", "E", "X", "I", "T", "_", "C", "O", "D", "E", ":", "5">>,
      <<"e", "c", "h", "o", " ", "\"", "h", "i">>,
      <<"e", "c", "h", "o", " ", "h", "i", " ", ")">>,
      <<"(", " ", "e", "c", "h", "o", " ", "h", "i">> }

\* the session is given no further command once bash waits for the rest of one
NextPrompt ==
    \/ \E command \in PromptCommands : \E reset_cwd \in BOOLEAN :
            /\ TERMINAL # 0 => shells[TERMINAL].status # "waiting"
            /\ BashTool(1, command, reset_cwd)
    \/ CallerStep(1)
    \/ \E s \in ShellIds : ShellStart(s) \/ ShellStep(s)
    \/ (pc[1] \in { "idle", "done" } /\ TerminalClose)

SpecPrompt == Init /\ [][NextPrompt]_vars

----------------------------------------------------------------------------
(* The claims *)

Spawned == { s \in ShellIds : shells[s].status # "none" }
InFlight(c) == pc[c] \in { "expect_done", "expect_prompt" }
\* the session is Ready: the child is idle and no command is waiting to be run
ReadyIn(S, s) ==
    /\ S[s].status = "idle"
    /\ \A i \in 1..Len(S[s].inq) : S[s].inq[i].kind # "cmd"
\* this step wrote a wrapped command to child s
WroteCommand(s) ==
    /\ Len(shells'[s].inq) > Len(shells[s].inq)
    /\ shells'[s].inq[Len(shells'[s].inq)].kind = "cmd"
\* this step is execute() returning its output to caller c
ExecuteReturned(c) ==
    /\ pc[c] = "expect_prompt"
    /\ pc'[c] # "expect_prompt"
    /\ result'[c].kind # "raised"

\* C1: bash_tool reports the exit status of the caller's command: 'echo hi'
\* yields output 'hi' with exit code 0, 'false' yields exit code 1 and 'exit 7'
\* yields exit code 7.  (Violated: 'exit 7' leaves the subshell before the
\* appended echo prints the marker, so no exit code is reported.)
C1_ExitStatusReported ==
    \A c \in Callers :
        (pc[c] = "done" /\ result[c].kind \in { "output", "failed" }) =>
            /\ cmd[c] = cmd_echo_hi =>
                    (result[c].code = 0 /\ result[c].out = << <<"h", "i">> >>)
            /\ cmd[c] = kw_false => result[c].code = 1
            /\ cmd[c] = cmd_exit_7 => result[c].code = 7

\* C2: a command the safety filter rejects makes bash_tool return the rejection
\* in the same step, with no child spawned, no session installed and nothing
\* written to any child; every command line a child is given comes from a
\* command the filter accepts.
SafeLine(l) ==
    l.kind = "cmd" =>
        \/ l.body = CdCommand(projectRoot)
        \/ \E command \in Commands :
                l.body = Combined(command) /\ is_command_safe(command).safe
C2_RejectedBeforeShell ==
    /\ [](\A s \in ShellIds : \A i \in 1..Len(shells[s].inq) : SafeLine(shells[s].inq[i]))
    /\ [][\A c \in Callers :
            (pc[c] = "idle" /\ pc'[c] # "idle" /\ ~is_command_safe(cmd'[c]).safe) =>
                /\ pc'[c] = "done"
                /\ result'[c].kind = "rejected"
                /\ shells' = shells
                /\ TERMINAL' = TERMINAL]_vars
\* 'sudo rm -rf /' was rejected while a live session exists
C2_Witness ==
    /\ pc[1] = "done"
    /\ cmd[1] = cmd_sudo_rm
    /\ result[1].kind = "rejected"
    /\ TERMINAL # 0
    /\ isalive(shells, TERMINAL)

\* C3: with concurrent callers, at most one command execution is in flight on a
\* session at a time.  (Violated: nothing serialises the callers.)
C3_OneInFlight ==
    \A s \in ShellIds :
        Cardinality({ c \in Callers : InFlight(c) /\ sh[c] = s }) <= 1

\* C4 as stated: over any sequence of calls at most one shell child process is
\* ever spawned.  (Violated: a start-up that times out leaves _TERMINAL unset
\* and the next call spawns another child.)
C4_OneSpawnEver == Cardinality(Spawned) <= 1
\* C4 as amended: a child is spawned only while no session is installed, the
\* installed session is never replaced, and every call that gets past
\* validation and the filter while a session is installed works on it.
C4_OneSession ==
    [][/\ TERMINAL # 0 => TERMINAL' = TERMINAL
       /\ \A s \in ShellIds :
            (shells[s].status = "none" /\ shells'[s].status # "none") => TERMINAL = 0
       /\ \A c \in Callers :
            (pc[c] = "idle" /\ pc'[c] \notin { "idle", "done" } /\ TERMINAL # 0) =>
                sh'[c] = TERMINAL]_vars
\* a start-up failed and its child was closed, a later call installed a session,
\* and a further call works on that session
C4_Witness ==
    \E s1, s2 \in ShellIds :
        /\ s1 # s2
        /\ shells[s1].status = "closed"
        /\ TERMINAL = s2
        /\ isalive(shells, s2)
        /\ sh[1] = s2
        /\ ctx[1] = "main"
        /\ calls = 3

\* C5: execute writes a command to the child only while the session is Ready,
\* an execute that returns leaves the session Ready, and once the session is
\* Closed no command is written and no execute returns an output.  (Violated:
\* after a timeout the next execute writes while the child still runs.)
C5_StateMachine ==
    [][\A s \in ShellIds :
        /\ WroteCommand(s) => ReadyIn(shells, s)
        /\ \A c \in Callers : (sh[c] = s /\ ExecuteReturned(c)) => ReadyIn(shells', s)
        /\ shells[s].status = "closed" =>
                /\ ~WroteCommand(s)
                /\ \A c \in Callers : sh[c] = s => ~ExecuteReturned(c)]_vars

\* C6: close is idempotent: the first close of a live session writes 'exit' and
\* closes the child; once closed, no later step (a further close included)
\* writes to the child or changes its state.
C6_CloseIdempotent ==
    [][\A s \in ShellIds :
        /\ shells[s].status = "closed" => shells'[s] = shells[s]
        /\ (isalive(shells, s) /\ shells'[s].status = "closed") =>
                shells'[s].inq = Append(shells[s].inq, ExitLine)]_vars
\* the installed session was closed after it had run a command
C6_Witness ==
    /\ TERMINAL # 0
    /\ shells[TERMINAL].status = "closed"
    /\ shells[TERMINAL].inq # <<>>
    /\ shells[TERMINAL].inq[Len(shells[TERMINAL].inq)] = ExitLine
    /\ calls >= 1

\* C7: a timeout of the wait for the completion sentinel reaches the caller of
\* bash_tool as a text result prefixed 'Error: ', never as an exception.
\* (Violated: pexpect.TIMEOUT leaves bash_tool uncaught.)
C7_TimeoutIsErrorText ==
    \A c \in Callers :
        ~(pc[c] = "done" /\ result[c].kind = "raised" /\ result[c].reason = "TIMEOUT@63")

\* C8: with reset_cwd the caller's command runs in the project root ('pwd'
\* prints it), and whenever the session is Ready the directory it records
\* (self.cwd, the project root) is the child's working directory.  (Violated:
\* every cd runs inside the parentheses of the wrapper, in a subshell.)
C8_ResetCwd ==
    /\ \A c \in Callers :
        (pc[c] = "done" /\ reset[c] /\ cmd[c] = cmd_pwd /\ result[c].kind = "output") =>
            result[c].out = <<projectRoot>>
    /\ (TERMINAL # 0 /\ ReadyIn(shells, TERMINAL)) => shells[TERMINAL].cwd = projectRoot

\* a word boundary around 'sudo': an end of the text, whitespace or shell punctuation
IsBoundary(ch) == IsSpace(ch) \/ ch \in { ";", "|", "&", "(", ")" }
StandaloneSudo(c) ==
    \E i \in 1..Len(c) :
        /\ StartsAt(c, i, sudo)
        /\ (i = 1 \/ IsBoundary(c[i - 1]))
        /\ (i + 4 > Len(c) \/ IsBoundary(c[i + 4]))
\* C9: the filter rejects every command with 'sudo' as a standalone token
\* (delimited by ends of text, whitespace or shell punctuation), and rejects for
\* 'sudo' only then.  (Violated: ';' is not taken as a delimiter.)
C9_SudoToken ==
    verdict.reason # "unchecked" =>
        /\ StandaloneSudo(Joined(text)) => ~verdict.safe
        /\ verdict.reason = "sudo" => StandaloneSudo(Joined(text))

FlagForms ==
    { <<"-", "r", "f">>, <<"-", "f", "r">>,
      <<"-", "r", " ", "-", "f">>, <<"-", "f", " ", "-", "r">> }
\* rm, the two flags in one of their forms, and the root ('/' or '/*') as target
ForcedRootRemoval(c) ==
    \E fl \in FlagForms : \E i, j, k \in 1..Len(c) :
        /\ StartsAt(c, i, rm)
        /\ SpaceRun(c, i + 2, j - 1)
        /\ StartsAt(c, j, fl)
        /\ SpaceRun(c, j + Len(fl), k - 1)
        /\ c[k] = "/"
        /\ \/ k = Len(c)
           \/ (k + 1 <= Len(c) /\ (c[k + 1] = "*" \/ IsSpace(c[k + 1])))
\* C10: the filter rejects every recursive forced removal of the root, however
\* the flags are written: -rf, -fr, -r -f, -f -r.  (Violated: only -rf is matched.)
C10_RmRootAnyFlags ==
    verdict.reason # "unchecked" =>
        (ForcedRootRemoval(Joined(text)) => ~verdict.safe)

\* the maximal runs of characters other than whitespace
WordTokens(c) ==
    { SubSeq(c, p[1], p[2]) : p \in
        { q \in (1..Len(c)) \X (1..Len(c)) :
            /\ q[1] <= q[2]
            /\ \A k \in q[1]..q[2] : ~IsSpace(c[k])
            /\ (q[1] = 1 \/ IsSpace(c[q[1] - 1]))
            /\ (q[2] = Len(c) \/ IsSpace(c[q[2] + 1])) } }
\* some whitespace-delimited token has a deny-listed name as its last path segment
DenyListedWord(c) ==
    \E w \in WordTokens(c) : Basename(w) \in blacklist \cup extra_block
\* C11: the deny-list check rejects a command if and only if a token delimited by
\* whitespace has a last path segment equal to a deny-listed name; a name inside a
\* larger identifier ('x=mount', 'mount@host') is not rejected.  (Violated: the
\* tokens of the check end at every character outside [A-Za-z0-9_./-].)
C11_DenyListWholeTokens ==
    verdict.reason \in { "none", "blacklist" } =>
        (verdict.reason = "blacklist" <=> DenyListedWord(Joined(text)))

\* where the path of the last editor call led in the file system it found, and
\* the four reasons for which a path is refused
TargetOf(file_path) ==
    IF file_path = <<>> THEN <<>>
    ELSE IF Head(file_path) = "/" THEN Walk(fsWas, <<>>, Tail(file_path))
    ELSE Walk(fsWas, EditorRoot, file_path)
OutsideRoot(p) == ~IsRelativeTo(p, EditorRoot)
Refused(p) ==
    \/ OutsideRoot(p)
    \/ NodeAt(fsWas, p).kind # "file"
    \/ \E i \in 1..Len(fsWas[p].data) : fsWas[p].data[i] = NUL
EditorCall == call.op \in { "text_view", "str_replace_edit" }
\* C12: over any sequence of text_view and str_replace_edit calls, a call whose path
\* resolves outside the project root, is missing, is no regular file or is binary
\* returns an error without reading the file as text and without writing, and
\* leaves every file as it was; no file outside the project root is ever modified.
C12_RefusedPathsUntouched ==
    /\ \A p \in DOMAIN ProjectFiles : OutsideRoot(p) => (p \in DOMAIN fs /\ fs[p] = ProjectFiles[p])
    /\ (EditorCall /\ Refused(TargetOf(call.file_path))) =>
            /\ ret.kind = "error"
            /\ \A i \in 1..Len(trace) : trace[i] \notin { "read_text", "open_w", "write" }
            /\ fs = fsWas
\* a str_replace_edit through a link that leads out of the root, for a string the
\* file outside holds, is refused after earlier edits have changed the project
C12_Witness ==
    /\ call.op = "str_replace_edit"
    /\ call.file_path = <<"link">>
    /\ call.old_str = <<"a">>
    /\ call.occurrence_index = 0
    /\ ret = EditorError("outside_root")
    /\ fs # ProjectFiles

\* the places of the occurrences of w in s, taken from the left without overlap:
\* a place where w stands belongs to them unless an earlier one of them covers it
Occurrences(s, w) ==
    CHOOSE C \in SUBSET (1..Len(s)) :
        \A i \in 1..Len(s) :
            i \in C <=> (StartsAt(s, i, w) /\ \A j \in C : j < i => j + Len(w) <= i)
\* s with the w that stands at place i replaced by n
ReplacedAt(s, i, w, n) == SubSeq(s, 1, i - 1) \o n \o SubSeq(s, i + Len(w), Len(s))
\* the last call was a str_replace_edit with a valid index on a text file that
\* can be read, and the write did not fail
EditOfText ==
    /\ call.op = "str_replace_edit"
    /\ call.occurrence_index >= 0
    /\ ~Refused(TargetOf(call.file_path))
    /\ fsWas[TargetOf(call.file_path)].readable
    /\ \A i \in 1..Len(fsWas[TargetOf(call.file_path)].data) :
            fsWas[TargetOf(call.file_path)].data[i] # BadByte
WriteFailed == ret.kind = "raised" \/ ret = EditorError("write")
\* C13: for a non-empty old_str with m occurrences in the file (left to right,
\* without overlap) and 0 <= k < m, str_replace_edit leaves the file equal to the
\* original with the k-th occurrence replaced by new_str and every other character
\* unchanged; for k >= m or m = 0 it returns an error and the file is unchanged.
\* (Violated: the file is read and written back with its line ends translated.)
C13_KthOccurrenceReplaced ==
    (EditOfText /\ call.old_str # <<>> /\ ~WriteFailed) =>
        LET p == TargetOf(call.file_path)
            original == fsWas[p].data
            places == Occurrences(original, call.old_str)
            k == call.occurrence_index
            kth == CHOOSE i \in places : Cardinality({ j \in places : j < i }) = k
        IN  IF k < Cardinality(places)
            THEN /\ ret.kind = "edited"
                 /\ fs = [fsWas EXCEPT ![p].data =
                            ReplacedAt(original, kth, call.old_str, call.new_str)]
            ELSE ret.kind = "error" /\ fs = fsWas

\* the number of places where w stands in s, overlapping ones counted
Count(s, w) == Cardinality({ i \in 1..Len(s) : StartsAt(s, i, w) })
\* the last call replaced old_str by new_str with success, old_str stood in one
\* place only of the file it found, and new_str stands in one place only of the
\* file it left
EditedAlone ==
    /\ EditOfText
    /\ ret.kind = "edited"
    /\ call.old_str # <<>> /\ call.new_str # <<>>
    /\ Count(fsWas[ret.path].data, call.old_str) = 1
    /\ Count(fs[ret.path].data, call.new_str) = 1
\* this step is the call str_replace_edit(p, new, old, k) that takes the edit back
TakenBack ==
    /\ edits' = edits + 1
    /\ call' = [call EXCEPT !.old_str = call.new_str, !.new_str = call.old_str]
\* C14: when str_replace_edit(p, old, new, k) succeeds and old and new occur
\* nowhere else in the file, an immediately following str_replace_edit(p, new, old, k)
\* succeeds and restores the file's original content.  (Violated: the first edit
\* has rewritten the line ends of the file.)
C14_EditTakenBack ==
    [][ (EditedAlone /\ TakenBack /\ ~WriteFailed') => (ret'.kind = "edited" /\ fs' = fsWas) ]_vars

\* C15: if the write step of str_replace_edit fails, the file still holds its
\* complete original content, neither truncated nor partially written.
\* (Violated: write_text opens the file itself for writing, which empties it.)
C15_FailedWriteKeepsFile ==
    (call.op = "str_replace_edit" /\ WriteFailed) => fs = fsWas

\* the last call was a tree() whose arguments and root are in order
TreeCalled ==
    /\ call.op = "tree"
    /\ call.max_depth \in 1..3
    /\ NodeAt(fs, call.root).kind = "dir"
    /\ call.include_files \/ call.include_dirs
\* the path tree() reports for what lies at p
ReportedPath(p) ==
    IF call.absolute_paths THEN p ELSE SubSeq(p, Len(call.root) + 1, Len(p))
\* p lies below the root of the call, and every directory from the root down to
\* its parent can be listed
Reachable(p) ==
    /\ Len(p) > Len(call.root)
    /\ IsRelativeTo(p, call.root)
    /\ \A n \in Len(call.root)..(Len(p) - 1) : fs[SubSeq(p, 1, n)].readable
\* C16: for every max_depth in [1,3], tree(root, max_depth) returns no entry deeper
\* than max_depth, every entry's depth is its number of path segments below root,
\* and every readable directory above max_depth is descended into, also when
\* include_dirs=False hides it: its files down to max_depth are returned.
C16_TreeDepth ==
    TreeCalled =>
        /\ ret.kind = "entries"
        /\ \A i \in 1..Len(ret.entries) :
            /\ ret.entries[i].depth <= call.max_depth
            /\ \E p \in DOMAIN fs :
                /\ Len(p) - Len(call.root) = ret.entries[i].depth
                /\ IsRelativeTo(p, call.root)
                /\ ret.entries[i].path = ReportedPath(p)
        /\ (call.include_files /\ call.patterns = None) =>
            \A p \in DOMAIN fs :
                (fs[p].kind = "file" /\ Reachable(p) /\ Len(p) - Len(call.root) <= call.max_depth)
                    => \E i \in 1..Len(ret.entries) :
                            /\ ret.entries[i].path = ReportedPath(p)
                            /\ ~ret.entries[i].is_dir
\* tree(root, 3, include_dirs=False) has returned the file at depth 3 through two
\* hidden directories, and a file at depth 4 exists
C16_Witness ==
    /\ TreeCalled
    /\ call.root = <<"proj">> /\ call.max_depth = 3 /\ ~call.include_dirs /\ ~call.absolute_paths
    /\ <<"proj", "d1", "d2", "d3", "f3">> \in DOMAIN fs
    /\ \E i \in 1..Len(ret.entries) : ret.entries[i].path = <<"d1", "d2", "f2">>
    /\ \A i \in 1..Len(ret.entries) : ~ret.entries[i].is_dir

\* the number of spans of the records ms
RECURSIVE SpanCount(_)
SpanCount(ms) == IF ms = <<>> THEN 0 ELSE Len(Head(ms).spans) + SpanCount(Tail(ms))
\* the last call was a grep() with a cap, and it returned
GrepCapped ==
    /\ call.op = "grep"
    /\ call.max_matches # None
    /\ ret.kind = "matches"
\* what the same grep() returns without a cap
Uncapped ==
    grep(fs, call.root, call.query, call.case_sensitive, call.use_regex, call.include_binary,
         None).ret
\* C17: for every max_matches >= 0 the spans of all records returned by grep are at
\* most max_matches; the line that crosses the cap is returned with its first
\* remaining spans only, no line or file after it gives a record, and every
\* returned record has at least one span.
C17_GrepCap ==
    GrepCapped =>
        /\ call.max_matches[1] >= 0
        /\ SpanCount(ret.matches) <= call.max_matches[1]
        /\ \A i \in 1..Len(ret.matches) : Len(ret.matches[i].spans) >= 1
        /\ Uncapped.kind = "matches" =>
            /\ Len(ret.matches) <= Len(Uncapped.matches)
            /\ SpanCount(ret.matches) =
                    SetMin({ call.max_matches[1], SpanCount(Uncapped.matches) })
            /\ \A i \in 1..Len(ret.matches) :
                /\ ret.matches[i] =
                        [Uncapped.matches[i] EXCEPT !.spans =
                            SubSeq(Uncapped.matches[i].spans, 1, Len(ret.matches[i].spans))]
                /\ i < Len(ret.matches) => ret.matches[i] = Uncapped.matches[i]
\* a grep() capped at 2 has returned a line whole and then one span of the three
\* of a later line, with a file still to come
C17_Witness ==
    /\ GrepCapped
    /\ call.max_matches = Some(2)
    /\ Len(ret.matches) = 2
    /\ ret.matches[2].line_number = 3
    /\ Len(ret.matches[2].spans) = 1
    /\ Len(Uncapped.matches[2].spans) = 3
    /\ Len(Uncapped.matches) > 2

\* the last file tool call had an argument of a bad shape or range
InvalidArgument ==
    \/ /\ call.op = "text_view"
       /\ \/ call.start_line # None /\ call.start_line[1] <= 0
          \/ call.end_line # None /\ call.end_line[1] <= 0
          \/ /\ call.start_line # None /\ call.end_line # None
             /\ call.end_line[1] < call.start_line[1]
    \/ call.op = "str_replace_edit" /\ call.occurrence_index < 0
    \/ call.op \in { "ls", "tree" } /\ ~call.include_files /\ ~call.include_dirs
    \/ call.op = "tree" /\ call.max_depth \notin 1..3
    \/ call.op = "grep" /\ call.max_matches # None /\ call.max_matches[1] < 0
\* what it returned or raised is the validation error
ValidationError ==
    \/ /\ ret.kind = "error"
       /\ ret.reason \in { "empty_path", "start_line", "end_line", "end_before_start",
                          "occurrence_index" }
    \/ ret = Raised("ValueError")
\* C18: text_view, str_replace_edit, ls, tree and grep check their arguments before
\* any path or file system check: a call with an invalid argument reports the
\* validation error whatever the state of the target, and makes no file system
\* call.  (Violated: all but str_replace_edit look at the path first.)
C18_ValidationFirst ==
    InvalidArgument => (ValidationError /\ trace = <<>>)

\* the last call was a text_view of a text file that can be read and decoded,
\* with a range that is not upside down
ViewOfText ==
    /\ call.op = "text_view"
    /\ ~Refused(TargetOf(call.file_path))
    /\ fsWas[TargetOf(call.file_path)].readable
    /\ \A i \in 1..Len(fsWas[TargetOf(call.file_path)].data) :
            fsWas[TargetOf(call.file_path)].data[i] # BadByte
    /\ (call.start_line # None /\ call.end_line # None) =>
            call.end_line[1] >= call.start_line[1]
\* C19: text_view on a valid text file never fails for a line bound out of range:
\* a start_line or end_line outside 1..total_lines is clamped to the file's lines
\* and the clamped slice is returned, and with no range the whole file content is
\* returned.  (Violated: a bound below 1 is an error, and the content is returned
\* with its line ends translated.)
C19_ViewClamps ==
    ViewOfText =>
        LET content == fsWas[TargetOf(call.file_path)].data
            lines == readlines(content)
            first == IF call.start_line = None THEN 1 ELSE SetMax({ 1, call.start_line[1] })
            last == IF call.end_line = None THEN Len(lines)
                    ELSE SetMin({ Len(lines), call.end_line[1] })
            slice == IF call.start_line = None /\ call.end_line = None THEN content
                     ELSE Joined(SubSeq(lines, first, last))
        IN  /\ ret.kind = "view"
            /\ ret.selected = IF call.max_characters # None /\ Len(slice) > call.max_characters[1]
                              THEN SubSeq(slice, 1, call.max_characters[1])
                              ELSE slice

\* the lines the caller's command prints itself
OwnLines(command) ==
    IF command = cmd_echo_hi THEN { <<"h", "i">> }
    ELSE IF command = cmd_pwd THEN Dirs
    ELSE {}
\* this step is caller c reading the done marker that ends its wait at line 63
TakesDone(c) == pc[c] = "expect_done" /\ pc'[c] = "expect_prompt"
\* C20: what execute returns for a command is output of that command only: after
\* an earlier command has timed out waiting for its marker and finishes later, its
\* late output and late marker are never taken as the output or the completion of
\* a following command.  Every line bash_tool returns is a line its own command
\* printed, and a done marker is read only when the shell has taken the command
\* it is read for.  (Violated: the late marker ends the wait of the next command.)
C20_OwnOutputOnly ==
    /\ [](\A c \in Callers :
            (pc[c] = "done" /\ result[c].kind \in { "output", "failed" }) =>
                \A i \in 1..Len(result[c].out) : result[c].out[i] \in OwnLines(cmd[c]))
    /\ [][\A c \in Callers :
            TakesDone(c) =>
                \A i \in 1..Len(shells[sh[c]].inq) : shells[sh[c]].inq[i].kind # "cmd"]_vars

\* C21: every command text that ends in the shell, whatever its exit status and
\* whether or not it prints, and also one that calls exit, leaves a quote open or
\* has a parenthesis too many or too few, is followed by the done marker, so that
\* execute returns without waiting for the timeout: while execute waits for the
\* marker (line 63), the marker is there to be read or bash still has the command
\* to run; the wait is never one that only the timeout can end.  (Violated: with
\* a quote or "(" left open, bash takes the printf of the marker for a part of
\* the unfinished command and prints nothing.)
C21_SentinelAlways ==
    \A c \in Callers :
        (pc[c] = "expect_done" /\ shells[sh[c]].status # "closed") =>
            (HasItem(shells[sh[c]].out, DONE) \/ ~Quiet(sh[c]))

\* the exit status the caller's own command ends with
OwnStatus(c) == RunSubshell(cmd[c], ProjDir).status
\* bash_tool has returned what the command gave
Reported(c) == pc[c] = "done" /\ result[c].kind \in { "output", "failed" }
\* C22: bash_tool takes the exit code from the marker line its own appended
\* instruction prints and removes that marker from what it returns: an exit code
\* it reports is the status the caller's command ended with, whatever text of the
\* form __EXIT_CODE:<n> the command printed itself; no marker is left in the
\* returned output; and with no marker found the result is the plain output,
\* without the "Error: " prefix.  (Violated: re.search takes the first marker in
\* the output, the printed one, and re.sub removes only the one at the end.)
C22_OwnMarkerOnly ==
    \A c \in Callers :
        Reported(c) =>
            /\ result[c].code \in { -1, OwnStatus(c) }
            /\ MarkerPlaces(result[c].out) = {}
            /\ result[c].code = -1 => ~IsErrorText(result[c])

====
